---- MODULE Spec2Model ----
(***************************************************************************)
(* PrologOps (src/prologops.cpp): unification over a term graph with a     *)
(* trail, and backtracking in continuation-passing style.                  *)
(*                                                                         *)
(* Terms live in a heap (a sequence, a Term* is an index, 0 is nullptr).   *)
(* std::function closures live in a second heap; a Retry or Continuation   *)
(* is an index into it.  Every call of the program is in tail position,    *)
(* so the control state is the pending call pc; depth counts the C++       *)
(* frames that have not returned yet.                                      *)
(***************************************************************************)
EXTENDS Integers, Sequences, FiniteSets

VARIABLES
    terms,      \* the heap of Term objects (new Term())
    trail,      \* gTrail.mTrail
    clos,       \* the closures built so far (lambdas held in std::function)
    pc,         \* the call about to run
    depth,      \* nested invocations that have not returned
    scen,       \* which driver runs: "unify", "member" or "nested"
    mode,       \* what the driver's K does with the retry: "retry" or "stop"
    qa, qb, qc, \* the driver's arguments: t0/Item, t1/List, list2
    terms0,     \* the heap when the driver made its call
    trail0,     \* the trail when the driver made its call
    calls,      \* top-level calls the driver has made
    kCalls,     \* invocations of the continuation the driver passed
    rCalls,     \* invocations of the retry the driver passed
    sols,       \* Deref(item) at each solution, in order
    lastUnwind, \* the last UnWind a retry ran: its Index and what it popped
    occursViolated, \* a variable was bound to a compound that contains it
    closTrail   \* for each closure, the trail when it was built

vars == <<terms, trail, clos, pc, depth, scen, mode, qa, qb, qc, terms0,
          trail0, calls, kCalls, rCalls, sols, lastUnwind, occursViolated,
          closTrail>>

\* ---------------------------------------------------------------- bounds
MaxLen == 3        \* longest list of a member query
MaxNest == 2       \* longest list of a nested (conjunction) query
MaxCalls == 2      \* top-level Unify calls the unify driver makes in a row
MaxBinds == 2      \* direct Bind calls the bind driver makes in a row

Names == {"cat", "dog", "frog"}
Modes == {"retry", "stop"}

\* ----------------------------------------------------------------- terms
mkVar ==
    [type |-> "var", bound |-> FALSE, ref |-> 0,
     name |-> "", arity |-> 0, args |-> <<>>]

mkAtom(Name) ==
    [type |-> "atom", bound |-> FALSE, ref |-> 0,
     name |-> Name, arity |-> 0, args |-> <<>>]

mkAtom1(Name, a0) ==
    [type |-> "atom", bound |-> FALSE, ref |-> 0,
     name |-> Name, arity |-> 1, args |-> <<a0>>]

mkAtom2(Name, a0, a1) ==
    [type |-> "atom", bound |-> FALSE, ref |-> 0,
     name |-> Name, arity |-> 2, args |-> <<a0, a1>>]

\* The list .(n1, .(n2, ... [])) appended to heap h; root is its first cell.
RECURSIVE MkList(_, _)
MkList(h, ns) ==
    IF ns = <<>>
    THEN [heap |-> Append(h, mkAtom("[]")), root |-> Len(h) + 1]
    ELSE LET tl == MkList(h, Tail(ns))
             h1 == Append(tl.heap, mkAtom(Head(ns)))
             h2 == Append(h1, mkAtom2(".", Len(h1), tl.root))
         IN  [heap |-> h2, root |-> Len(h2)]

\* Deref's loop, cut after n hops.
RECURSIVE DerefN(_, _, _)
DerefN(tm, t, n) ==
    IF tm[t].type = "var" /\ tm[t].bound /\ n > 0
    THEN DerefN(tm, tm[t].ref, n - 1)
    ELSE t

\* A chain of bound variables without a cycle has fewer than Len(tm) hops.
\* the while loop is left out
Deref_NoFollow(tm, Root) == Root

Deref(tm, Root) == DerefN(tm, Root, Len(tm))

\* Deref's while loop never exits: the reference chain of Root has a cycle.
DerefLoops(tm, Root) ==
    LET t == DerefN(tm, Root, Len(tm)) IN tm[t].type = "var" /\ tm[t].bound

\* Variable v occurs in term t (through arguments and bound references).
RECURSIVE ContainsN(_, _, _, _)
ContainsN(tm, t, v, n) ==
    \/ t = v
    \/ /\ n > 0
       /\ IF tm[t].type = "var"
          THEN tm[t].bound /\ ContainsN(tm, tm[t].ref, v, n - 1)
          ELSE \E i \in 1..tm[t].arity : ContainsN(tm, tm[t].args[i], v, n - 1)

Contains(tm, t, v) == ContainsN(tm, t, v, 2 * Len(tm))

\* ----------------------------------------------------------------- trail
\* Trail::UnWind: pop and unbind until the size is Index.  Popping an empty
\* vector (Index above the size) is undefined: ub marks it.
UnWind_KeepsBound(tm, tr, Index) ==
    [terms |-> tm, trail |-> SubSeq(tr, 1, Index), ub |-> FALSE]

\* the loop stops one entry early
UnWind_StopsShort(tm, tr, Index) ==
    LET keep == IF Len(tr) > Index THEN Index + 1 ELSE Len(tr)
    IN  [terms |-> [t \in 1..Len(tm) |->
                      IF \E j \in (keep + 1)..Len(tr) : tr[j] = t
                      THEN [tm[t] EXCEPT !.bound = FALSE] ELSE tm[t]],
         trail |-> SubSeq(tr, 1, keep), ub |-> FALSE]

\* the loop pops one entry more than asked
UnWind_OneTooMany(tm, tr, Index) ==
    LET keep == IF Index > 0 THEN Index - 1 ELSE 0
    IN  [terms |-> [t \in 1..Len(tm) |->
                      IF \E j \in (keep + 1)..Len(tr) : tr[j] = t
                      THEN [tm[t] EXCEPT !.bound = FALSE] ELSE tm[t]],
         trail |-> SubSeq(tr, 1, keep), ub |-> FALSE]

RECURSIVE UnWind(_, _, _)
UnWind(tm, tr, Index) ==
    IF Len(tr) = Index
    THEN [terms |-> tm, trail |-> tr, ub |-> FALSE]
    ELSE IF Len(tr) = 0
         THEN [terms |-> tm, trail |-> tr, ub |-> TRUE]
         ELSE UnWind([tm EXCEPT ![tr[Len(tr)]].bound = FALSE],
                     SubSeq(tr, 1, Len(tr) - 1), Index)

\* int index = gTrail.mTrail.size(): the checkpoint a retry captures.
Checkpoint_Zero(tr) == 0

Checkpoint(tr) == Len(tr)

Bind_NoFlag(tm, tr, t0, t1) ==
    [terms |-> [tm EXCEPT ![t0].ref = t1],
     trail |-> Append(tr, t0)]

Bind_NoTrail(tm, tr, t0, t1) ==
    [terms |-> [tm EXCEPT ![t0].ref = t1, ![t0].bound = TRUE],
     trail |-> tr]

\* Bind: set the reference and the flag, then gTrail.Add.
Bind(tm, tr, t0, t1) ==
    [terms |-> [tm EXCEPT ![t0].ref = t1, ![t0].bound = TRUE],
     trail |-> Append(tr, t0)]

\* -------------------------------------------------------- calls, closures
PC(op, t0, t1, i, n, K, R) ==
    [op |-> op, t0 |-> t0, t1 |-> t1, i |-> i, n |-> n, K |-> K, R |-> R]

CallUnify(t0, t1, K, R) == PC("Unify", t0, t1, 0, 0, K, R)
\* UnifyTerms(t0s, t1s, K, R, Arity): t0s = &a0->mTerms[i-1], t1s likewise
CallUnifyTerms(a0, a1, i, Arity, K, R) == PC("UnifyTerms", a0, a1, i, Arity, K, R)
CallMember0(Item, List, K, R) == PC("Member0", Item, List, 0, 0, K, R)
CallMember1(Item, List, K, R) == PC("Member1", Item, List, 0, 0, K, R)
CallK(K, R) == PC("CallK", 0, 0, 0, 0, K, R)
CallR(R) == PC("CallR", 0, 0, 0, 0, 0, R)
\* the outermost call has returned to the driver
Done == PC("done", 0, 0, 0, 0, 0, 0)
\* Deref never returns
Hang == PC("hang", 0, 0, 0, 0, 0, 0)
\* the program ran into undefined behaviour and was stopped
Crash == PC("ub", 0, 0, 0, 0, 0, 0)

\* a variable was just bound to a compound that contains it: the caller broke
\* the rule that keeps the term graph acyclic, and the run is followed no further
Illegal == PC("illegal", 0, 0, 0, 0, 0, 0)

\* A closure: the lambda it came from (kind) and what it captured.
Clo(kind, index, x, y, i, n, K, R) ==
    [kind |-> kind, index |-> index, x |-> x, y |-> y, i |-> i, n |-> n,
     K |-> K, R |-> R]

\* The driver's arguments and bookkeeping, which the engine never touches.
drv == <<scen, mode, qa, qb, qc, terms0, trail0, calls>>

\* One invocation: the new heap, trail and closures, and the call it ends in.
Step(tm, tr, cl, next) ==
    /\ terms' = tm
    /\ trail' = tr
    /\ clos' = cl
    /\ pc' = next
    /\ depth' = IF next.op = "done" THEN 0 ELSE depth + 1
    /\ closTrail' = closTrail \o [i \in 1..(Len(cl) - Len(clos)) |-> tr]

\* What a retry does with its UnWind: past an empty vector the behaviour is
\* undefined, so the run may stop or go on with whatever was left.
Unwound(u, Index, next) ==
    /\ \E nx \in (IF u.ub THEN {Crash, next} ELSE {next}) :
           Step(u.terms, u.trail, clos, nx)
    /\ lastUnwind' = [index |-> Index, popped |-> Len(trail) - Len(u.trail)]

\* ----------------------------------------------------------------- Unify
SameFunctor_NameOnly(tm, a, b) == tm[a].name = tm[b].name

SameFunctor_ArityOnly(tm, a, b) == tm[a].arity = tm[b].arity

\* strcmp(name, name) == 0 && mArity == mArity
SameFunctor(tm, a, b) ==
    tm[a].name = tm[b].name /\ tm[a].arity = tm[b].arity

\* the test of t1dr comes first
UnifyBranch_PrefersT1(tm, t0dr, t1dr) ==
    IF tm[t1dr].type = "var" THEN "bind1"
    ELSE IF tm[t0dr].type = "var" THEN "bind0"
    ELSE IF SameFunctor(tm, t0dr, t1dr) THEN "args"
    ELSE "fail"

\* Which branch of Unify's if-chain runs on the dereferenced terms.
UnifyBranch(tm, t0dr, t1dr) ==
    IF tm[t0dr].type = "var" THEN "bind0"
    ELSE IF tm[t1dr].type = "var" THEN "bind1"
    ELSE IF SameFunctor(tm, t0dr, t1dr) THEN "args"
    ELSE "fail"

Unify ==
    /\ pc.op = "Unify"
    /\ IF DerefLoops(terms, pc.t0) \/ DerefLoops(terms, pc.t1)
       THEN Step(terms, trail, clos, Hang) /\ UNCHANGED occursViolated
       ELSE LET t0dr == Deref(terms, pc.t0)
                t1dr == Deref(terms, pc.t1)
                br == UnifyBranch(terms, t0dr, t1dr)
                v == IF br = "bind0" THEN t0dr ELSE t1dr
                w == IF br = "bind0" THEN t1dr ELSE t0dr
                b == Bind(terms, trail, v, w)
                clash == terms[w].type = "atom" /\ Contains(terms, w, v)
            IN  CASE br \in {"bind0", "bind1"} ->
                       /\ Step(b.terms, b.trail, clos,
                               IF clash THEN Illegal ELSE CallK(pc.K, pc.R))
                       /\ occursViolated' = (occursViolated \/ clash)
                  [] br = "args" ->
                       /\ Step(terms, trail, clos,
                               CallUnifyTerms(t0dr, t1dr, 1, terms[t0dr].arity,
                                              pc.K, pc.R))
                       /\ UNCHANGED occursViolated
                  [] br = "fail" ->
                       /\ Step(terms, trail, clos, CallR(pc.R))
                       /\ UNCHANGED occursViolated
    /\ UNCHANGED <<drv, kCalls, rCalls, sols, lastUnwind>>

\* ------------------------------------------------------------ UnifyTerms
UnifyTerms ==
    /\ pc.op = "UnifyTerms"
    /\ IF pc.n = 0
       THEN Step(terms, trail, clos, CallK(pc.K, pc.R))
       ELSE IF pc.i > terms[pc.t0].arity \/ pc.i > terms[pc.t1].arity
       THEN \* *t0s or *t1s reads an mTerms slot that was never set
            Step(terms, trail, clos, Crash)
       ELSE LET index == Checkpoint(trail)
                r == Len(clos) + 1
                k == Len(clos) + 2
            IN  Step(terms, trail,
                     clos \o <<Clo("UTr", index, 0, 0, 0, 0, 0, pc.R),
                               Clo("UTk", 0, pc.t0, pc.t1, pc.i, pc.n, pc.K, r)>>,
                     CallUnify(terms[pc.t0].args[pc.i], terms[pc.t1].args[pc.i],
                               k, r))
    /\ UNCHANGED <<drv, kCalls, rCalls, sols, lastUnwind, occursViolated>>

\* k of UnifyTerms: the remaining pairs, with the captured r, not the R passed
UnifyTermsK ==
    /\ pc.op = "CallK"
    /\ clos[pc.K].kind = "UTk"
    /\ LET c == clos[pc.K]
       IN  Step(terms, trail, clos,
                CallUnifyTerms(c.x, c.y, c.i + 1, c.n - 1, c.K, c.R))
    /\ UNCHANGED <<drv, kCalls, rCalls, sols, lastUnwind, occursViolated>>

UnifyTermsRNext_Drop(c) == Done

\* r of UnifyTerms, after its UnWind: R()
UnifyTermsRNext(c) == CallR(c.R)

UnifyTermsR ==
    /\ pc.op = "CallR"
    /\ clos[pc.R].kind = "UTr"
    /\ LET c == clos[pc.R]
       IN  Unwound(UnWind(terms, trail, c.index), c.index, UnifyTermsRNext(c))
    /\ UNCHANGED <<drv, kCalls, rCalls, sols, occursViolated>>

\* --------------------------------------------------------------- Member
\* member( A0, [_|T] ) :- member( A0, T ).
Member1 ==
    /\ pc.op = "Member1"
    /\ LET H == Len(terms) + 1
           T == Len(terms) + 2
           A1 == Len(terms) + 3
           index == Checkpoint(trail)
           r == Len(clos) + 1
           k == Len(clos) + 2
       IN  Step(terms \o <<mkVar, mkVar, mkAtom2(".", H, T)>>, trail,
                clos \o <<Clo("M1r", index, pc.t0, pc.t1, 0, 0, pc.K, pc.R),
                          Clo("M1k", 0, pc.t0, T, 0, 0, pc.K, 0)>>,
                CallUnify(pc.t1, A1, k, r))
    /\ UNCHANGED <<drv, kCalls, rCalls, sols, lastUnwind, occursViolated>>

Member1KNext_SkipHead(c, R) == CallMember1(c.x, c.y, c.K, R)

\* k of Member1, the clause body: Member0(A0, T, K, R)
Member1KNext(c, R) == CallMember0(c.x, c.y, c.K, R)

Member1K ==
    /\ pc.op = "CallK"
    /\ clos[pc.K].kind = "M1k"
    /\ Step(terms, trail, clos, Member1KNext(clos[pc.K], pc.R))
    /\ UNCHANGED <<drv, kCalls, rCalls, sols, lastUnwind, occursViolated>>

Member1RNext_Drop(c) == Done

\* r of Member1, after its UnWind: the last clause, so R()
Member1RNext(c) == CallR(c.R)

Member1R ==
    /\ pc.op = "CallR"
    /\ clos[pc.R].kind = "M1r"
    /\ LET c == clos[pc.R]
       IN  Unwound(UnWind(terms, trail, c.index), c.index, Member1RNext(c))
    /\ UNCHANGED <<drv, kCalls, rCalls, sols, occursViolated>>

\* member( A0, [A0|_] ).
Member0 ==
    /\ pc.op = "Member0"
    /\ LET V == Len(terms) + 1
           A1 == Len(terms) + 2
           index == Checkpoint(trail)
           r == Len(clos) + 1
           k == Len(clos) + 2
       IN  Step(terms \o <<mkVar, mkAtom2(".", pc.t0, V)>>, trail,
                clos \o <<Clo("M0r", index, pc.t0, pc.t1, 0, 0, pc.K, pc.R),
                          Clo("M0k", 0, 0, 0, 0, 0, pc.K, 0)>>,
                CallUnify(pc.t1, A1, k, r))
    /\ UNCHANGED <<drv, kCalls, rCalls, sols, lastUnwind, occursViolated>>

\* k of Member0: no body, K(R)
Member0K ==
    /\ pc.op = "CallK"
    /\ clos[pc.K].kind = "M0k"
    /\ Step(terms, trail, clos, CallK(clos[pc.K].K, pc.R))
    /\ UNCHANGED <<drv, kCalls, rCalls, sols, lastUnwind, occursViolated>>

Member0RNext_SkipClause(c) == CallR(c.R)

\* r of Member0, after its UnWind: the next clause, Member1(Item, List, K, R)
Member0RNext(c) == CallMember1(c.x, c.y, c.K, c.R)

Member0R ==
    /\ pc.op = "CallR"
    /\ clos[pc.R].kind = "M0r"
    /\ LET c == clos[pc.R]
       IN  Unwound(UnWind(terms, trail, c.index), c.index, Member0RNext(c))
    /\ UNCHANGED <<drv, kCalls, rCalls, sols, occursViolated>>

\* --------------------------------------------------------------- drivers
\* main's outer continuation: Member0(item, list2, <inner continuation>, R)
MainK1 ==
    /\ pc.op = "CallK"
    /\ clos[pc.K].kind = "K1"
    /\ LET c == clos[pc.K]
           k2 == Len(clos) + 1
       IN  Step(terms, trail,
                Append(clos, Clo("K2", 0, c.x, 0, 0, 0, 0, 0)),
                CallMember0(c.x, c.y, k2, pc.R))
    /\ kCalls' = kCalls + 1
    /\ UNCHANGED <<drv, rCalls, sols, lastUnwind, occursViolated>>

\* The continuation that receives a solution: it reads the item through
\* Deref, then invokes the retry it was handed (mode "retry", as main's inner
\* continuation does) or returns (mode "stop").  x = 0: no item is read.
SolutionK ==
    /\ pc.op = "CallK"
    /\ clos[pc.K].kind = "K2"
    /\ LET c == clos[pc.K]
       IN  /\ kCalls' = IF pc.K = 1 THEN kCalls + 1 ELSE kCalls
           /\ IF c.x # 0 /\ DerefLoops(terms, c.x)
              THEN Step(terms, trail, clos, Hang) /\ UNCHANGED sols
              ELSE /\ sols' = IF c.x # 0 THEN Append(sols, Deref(terms, c.x))
                                         ELSE sols
                   /\ Step(terms, trail, clos,
                           IF mode = "retry" THEN CallR(pc.R) ELSE Done)
    /\ UNCHANGED <<drv, rCalls, lastUnwind, occursViolated>>

\* The retry the driver passed: main's []() {}; it returns at once.
TopR ==
    /\ pc.op = "CallR"
    /\ clos[pc.R].kind = "R0"
    /\ Step(terms, trail, clos, Done)
    /\ rCalls' = rCalls + 1
    /\ UNCHANGED <<drv, kCalls, sols, lastUnwind, occursViolated>>

\* The terms the unify driver draws its arguments from.
Pool ==
    << mkVar,                \*  1  X
       mkVar,                \*  2  Y
       mkAtom("a"),          \*  3  a
       mkAtom("b"),          \*  4  b
       mkAtom("a"),          \*  5  a (another node)
       mkAtom1("f", 1),      \*  6  f(X)
       mkAtom1("g", 1),      \*  7  g(X)
       mkAtom2("f", 1, 2),   \*  8  f(X, Y)
       mkAtom2("f", 2, 1),   \*  9  f(Y, X)
       mkAtom1("f", 3),      \* 10  f(a)
       mkAtom1("f", 5),      \* 11  f(a) (another node)
       mkAtom2("f", 3, 4),   \* 12  f(a, b)
       mkAtom1("f", 10),     \* 13  f(f(a))
       mkAtom1("f", 11) >>   \* 14  f(f(a)) (another node)

\* The caller's duty: never unify a variable with a compound containing it.
OccursClash(tm, t0, t1) ==
    LET d0 == Deref(tm, t0)
        d1 == Deref(tm, t1)
    IN  \/ tm[d0].type = "var" /\ tm[d1].type = "atom" /\ Contains(tm, d1, d0)
        \/ tm[d1].type = "var" /\ tm[d0].type = "atom" /\ Contains(tm, d0, d1)

NoUnwind == [index |-> 0, popped |-> 0]

\* A top-level Unify(t0, t1, K, R) once the previous one has returned.
UnifyCall ==
    /\ scen = "unify"
    /\ pc.op = "done"
    /\ calls < MaxCalls
    /\ \E t0 \in 1..Len(Pool), t1 \in 1..Len(Pool) :
          /\ ~OccursClash(terms, t0, t1)
          /\ qa' = t0
          /\ qb' = t1
          /\ pc' = CallUnify(t0, t1, 1, 2)
    /\ clos' = <<Clo("K2", 0, 0, 0, 0, 0, 0, 0), Clo("R0", 0, 0, 0, 0, 0, 0, 0)>>
    /\ terms0' = terms
    /\ trail0' = trail
    /\ calls' = calls + 1
    /\ kCalls' = 0
    /\ rCalls' = 0
    /\ sols' = <<>>
    /\ lastUnwind' = NoUnwind
    /\ depth' = 0
    /\ closTrail' = <<trail, trail>>
    /\ UNCHANGED <<terms, trail, scen, mode, qc, occursViolated>>

\* A caller other than Unify runs Bind(t0, t1) on a variable of the pool,
\* whatever its binding state: Bind itself tests nothing.
BindCall ==
    /\ scen = "bind"
    /\ pc.op = "done"
    /\ calls < MaxBinds
    /\ \E t0 \in {t \in 1..Len(Pool) : Pool[t].type = "var"}, t1 \in 1..Len(Pool) :
          LET b == Bind(terms, trail, t0, t1)
          IN  /\ terms' = b.terms
              /\ trail' = b.trail
              /\ qa' = t0
              /\ qb' = t1
    /\ terms0' = terms
    /\ trail0' = trail
    /\ calls' = calls + 1
    /\ UNCHANGED <<clos, pc, depth, scen, mode, qc, kCalls, rCalls, sols,
                   lastUnwind, occursViolated, closTrail>>

\* ------------------------------------------------------------------ Init
Lists(n) == UNION {[1..k -> Names] : k \in 0..n}

\* main's lists: [cat, dog, frog] and [cat, monkey, frog]
MainList == <<"cat", "dog", "frog">>
MainList2 == <<"cat", "monkey", "frog">>

Fresh ==
    /\ trail = <<>>
    /\ trail0 = <<>>
    /\ terms0 = terms
    /\ depth = 0
    /\ kCalls = 0
    /\ rCalls = 0
    /\ sols = <<>>
    /\ lastUnwind = NoUnwind
    /\ occursViolated = FALSE
    /\ closTrail = [i \in 1..Len(clos) |-> <<>>]

InitUnify ==
    /\ scen = "unify"
    /\ mode \in Modes
    /\ terms = Pool
    /\ clos = <<>>
    /\ pc = Done
    /\ qa = 0 /\ qb = 0 /\ qc = 0
    /\ calls = 0
    /\ Fresh

\* member(Item, List): Item is a fresh variable ("") or an atom.
InitMember ==
    /\ scen = "member"
    /\ mode \in Modes
    /\ \E ns \in Lists(MaxLen), it \in Names \cup {""} :
          LET L == MkList(<<>>, ns)
              item == Len(L.heap) + 1
          IN  /\ terms = Append(L.heap, IF it = "" THEN mkVar ELSE mkAtom(it))
              /\ qa = item
              /\ qb = L.root
              /\ qc = 0
              /\ clos = <<Clo("K2", 0, item, 0, 0, 0, 0, 0),
                          Clo("R0", 0, 0, 0, 0, 0, 0, 0)>>
              /\ pc = CallMember0(item, L.root, 1, 2)
    /\ calls = 1
    /\ Fresh

\* main: member(Item, list), member(Item, list2).
InitNested ==
    /\ scen = "nested"
    /\ mode \in Modes
    /\ \E ls \in (Lists(MaxNest) \X Lists(MaxNest)) \cup {<<MainList, MainList2>>} :
          LET L1 == MkList(<<>>, ls[1])
              L2 == MkList(L1.heap, ls[2])
              item == Len(L2.heap) + 1
          IN  /\ terms = Append(L2.heap, mkVar)
              /\ qa = item
              /\ qb = L1.root
              /\ qc = L2.root
              /\ clos = <<Clo("K1", 0, item, L2.root, 0, 0, 0, 0),
                          Clo("R0", 0, 0, 0, 0, 0, 0, 0)>>
              /\ pc = CallMember0(item, L1.root, 1, 2)
    /\ calls = 1
    /\ Fresh

\* Direct calls of Bind on the pool's terms.
InitBind ==
    /\ scen = "bind"
    /\ mode \in Modes
    /\ terms = Pool
    /\ clos = <<>>
    /\ pc = Done
    /\ qa = 0 /\ qb = 0 /\ qc = 0
    /\ calls = 0
    /\ Fresh

Init == InitUnify \/ InitMember \/ InitNested

Next ==
    \/ UnifyCall
    \/ Unify
    \/ UnifyTerms
    \/ UnifyTermsK
    \/ UnifyTermsR
    \/ Member0
    \/ Member0K
    \/ Member0R
    \/ Member1
    \/ Member1K
    \/ Member1R
    \/ MainK1
    \/ SolutionK
    \/ TopR

Spec == Init /\ [][Next]_vars

\* Member and Unify alone, under the driver of a member query.  The program is
\* one thread that always runs its next call, so a pending call is taken.
NextMember ==
    \/ Unify
    \/ UnifyTerms
    \/ UnifyTermsK
    \/ UnifyTermsR
    \/ Member0
    \/ Member0K
    \/ Member0R
    \/ Member1
    \/ Member1K
    \/ Member1R
    \/ SolutionK
    \/ TopR

MemberSpec == InitMember /\ [][NextMember]_vars /\ WF_vars(NextMember)

BindSpec == InitBind /\ [][BindCall]_vars

\* ------------------------------------------------------ what the claims use
\* The element nodes of the list rooted at l, in list order.
RECURSIVE ListElems(_, _)
ListElems(tm, l) ==
    IF tm[l].type = "atom" /\ tm[l].name = "." /\ tm[l].arity = 2
    THEN <<tm[l].args[1]>> \o ListElems(tm, tm[l].args[2])
    ELSE <<>>

NameSeq(tm, ids) == [i \in 1..Len(ids) |-> tm[ids[i]].name]

Distinct(s) == \A i, j \in 1..Len(s) : s[i] = s[j] => i = j

Count(e, s) == Cardinality({i \in 1..Len(s) : s[i] = e})

IsPrefix(s, t) == Len(s) <= Len(t) /\ \A i \in 1..Len(s) : s[i] = t[i]

\* The term has no variable in it.
RECURSIVE Ground(_, _)
Ground(tm, t) ==
    /\ tm[t].type = "atom"
    /\ \A i \in 1..tm[t].arity : Ground(tm, tm[t].args[i])

\* Same functor name, same arity, pairwise equal arguments, recursively.
RECURSIVE StructEq(_, _, _)
StructEq(tm, a, b) ==
    /\ tm[a].type = "atom" /\ tm[b].type = "atom"
    /\ tm[a].name = tm[b].name
    /\ tm[a].arity = tm[b].arity
    /\ \A i \in 1..tm[a].arity : StructEq(tm, tm[a].args[i], tm[b].args[i])

Stuck == pc.op \in {"hang", "ub", "illegal"}

\* A retry built by UnifyTerms, Member0 or Member1 is about to run.
RetryStep == pc.op = "CallR" /\ clos[pc.R].kind \in {"UTr", "M0r", "M1r"}

\* The driver has called Unify(qa, qb, K, R).
UnifyCalled == scen = "unify" /\ calls >= 1

\* --------------------------------------------------------------------- C1
EnumQuery ==
    /\ scen = "member"
    /\ mode = "retry"
    /\ terms0[qa].type = "var"
    /\ Distinct(NameSeq(terms0, ListElems(terms0, qb)))

\* C1: member(Item, L) with Item unbound and L a list of n distinct atoms,
\* retried after every solution, delivers exactly the n elements of L in list
\* order (Item dereferences to the i-th element at the i-th solution) and then
\* invokes the outer retry R exactly once, with no solution after it.
C1_Enumerates ==
    EnumQuery =>
        LET L == ListElems(terms0, qb)
        IN  /\ IsPrefix(sols, L)
            /\ ~Stuck
            /\ rCalls <= 1
            /\ (rCalls = 1 => sols = L /\ pc.op = "done")
            /\ (pc.op = "done" => rCalls = 1)

C1_Witness ==
    /\ EnumQuery
    /\ pc.op = "done"
    /\ rCalls = 1
    /\ Len(sols) >= 3
    /\ NameSeq(terms, sols) = NameSeq(terms0, ListElems(terms0, qb))

\* --------------------------------------------------------------------- C2
NestedQuery == scen = "nested" /\ mode = "retry"

RECURSIVE Repeat(_, _)
Repeat(x, n) == IF n = 0 THEN <<>> ELSE <<x>> \o Repeat(x, n - 1)

\* Each element of l1, in order, once per occurrence of its name in l2.
RECURSIVE Joined(_, _, _)
Joined(tm, l1, names2) ==
    IF l1 = <<>> THEN <<>>
    ELSE Repeat(Head(l1), Count(tm[Head(l1)].name, names2))
            \o Joined(tm, Tail(l1), names2)

\* C2 as stated: the solutions of member(Item, list1), member(Item, list2) are
\* exactly the elements of list1 that also occur in list2, in list1 order,
\* followed by one invocation of the outer retry.
C2_Original ==
    (NestedQuery /\ pc.op = "done") =>
        LET n1 == NameSeq(terms0, ListElems(terms0, qb))
            n2 == NameSeq(terms0, ListElems(terms0, qc))
            In2(e) == \E i \in 1..Len(n2) : n2[i] = e
        IN  /\ NameSeq(terms, sols) = SelectSeq(n1, In2)
            /\ rCalls = 1

\* C2, amended: the solutions are the elements of list1 that occur in list2, in
\* list1 order, each delivered once per occurrence in list2, followed by exactly
\* one invocation of the outer retry; main's lists give cat, frog, then failure.
C2_Conjunction ==
    NestedQuery =>
        LET L1 == ListElems(terms0, qb)
            n2 == NameSeq(terms0, ListElems(terms0, qc))
            want == Joined(terms0, L1, n2)
        IN  /\ IsPrefix(sols, want)
            /\ ~Stuck
            /\ rCalls <= 1
            /\ (rCalls = 1 => sols = want /\ pc.op = "done")
            /\ (pc.op = "done" => rCalls = 1)
            /\ (pc.op = "done" /\ NameSeq(terms0, L1) = MainList /\ n2 = MainList2
                  => NameSeq(terms, sols) = <<"cat", "frog">>)

C2_Witness ==
    /\ NestedQuery
    /\ pc.op = "done"
    /\ rCalls = 1
    /\ Len(sols) > Len(ListElems(terms0, qb))

\* --------------------------------------------------------------------- C3
\* C3: when a retry of UnifyTerms, Member0 or Member1 runs, right after its
\* UnWind(index) the trail is exactly its first index entries, every variable
\* recorded after the checkpoint is unbound, and every variable recorded before
\* it is still bound to the same term.
C3_UnwindRestores ==
    [][RetryStep =>
          LET index == clos[pc.R].index
          IN  /\ index <= Len(trail)
              /\ trail' = SubSeq(trail, 1, index)
              /\ \A j \in 1..Len(trail) :
                    IF j > index
                    THEN ~terms'[trail[j]].bound
                    ELSE /\ terms'[trail[j]].bound
                         /\ terms'[trail[j]].ref = terms[trail[j]].ref]_vars

C3_Witness ==
    /\ lastUnwind.popped >= 1
    /\ lastUnwind.index >= 1
    /\ Len(trail) = lastUnwind.index
    /\ pc.op \in {"CallR", "Member1"}
    /\ \A j \in 1..Len(trail) : terms[trail[j]].bound

\* --------------------------------------------------------------------- C4
\* C4: Unify(t, t, K, R) invokes K with the trail and every variable's bound
\* flag and reference as they were when Unify was called.
C4_Reflexive ==
    (UnifyCalled /\ qa = qb /\ ~DerefLoops(terms0, qa)) =>
        /\ (pc.op = "CallK" /\ pc.K = 1 => trail = trail0 /\ terms = terms0)
        /\ (pc.op = "done" => kCalls = 1)

\* --------------------------------------------------------------------- C5
GroundCall == UnifyCalled /\ Ground(terms0, qa) /\ Ground(terms0, qb)

\* C5: for ground terms A and B, Unify(A, B, K, R) invokes K iff A and B are
\* structurally equal and invokes R otherwise; the trail never changes.
C5_GroundUnify ==
    GroundCall =>
        /\ trail = trail0
        /\ ~Stuck
        /\ kCalls <= 1
        /\ (kCalls = 1 => StructEq(terms0, qa, qb))
        /\ (pc.op = "done" =>
              IF StructEq(terms0, qa, qb)
              THEN kCalls = 1 /\ rCalls = (IF mode = "retry" THEN 1 ELSE 0)
              ELSE kCalls = 0 /\ rCalls = 1)

C5_Witness ==
    /\ GroundCall
    /\ pc.op = "done"
    /\ qa # qb
    /\ StructEq(terms0, qa, qb)
    /\ terms0[qa].arity = 1
    /\ terms0[terms0[qa].args[1]].arity = 1
    /\ terms0[qa].args[1] # terms0[qb].args[1]
    /\ kCalls = 1

\* --------------------------------------------------------------------- C6
MismatchCall ==
    /\ UnifyCalled
    /\ ~DerefLoops(terms0, qa) /\ ~DerefLoops(terms0, qb)
    /\ LET a == Deref(terms0, qa)
           b == Deref(terms0, qb)
       IN  /\ terms0[a].type = "atom" /\ terms0[b].type = "atom"
           /\ terms0[a].name # terms0[b].name \/ terms0[a].arity # terms0[b].arity

\* C6: Unify of two compounds whose functor names or arities differ invokes R
\* and never K, and leaves the trail and every variable as they were.
C6_Mismatch ==
    MismatchCall =>
        /\ kCalls = 0
        /\ trail = trail0
        /\ terms = terms0
        /\ ~Stuck
        /\ pc.op \in {"Unify", "CallR", "done"}
        /\ (pc.op = "done" => rCalls = 1)

C6_Witness ==
    /\ MismatchCall
    /\ pc.op = "done"
    /\ rCalls = 1
    /\ terms0[qa].name = terms0[qb].name
    /\ terms0[qa].arity = 1 /\ terms0[qb].arity = 2
    /\ terms[terms0[qa].args[1]].type = "var"
    /\ ~terms[terms0[qa].args[1]].bound

\* --------------------------------------------------------------------- C7
\* C7: in every reachable state a variable whose bound flag is false has a
\* null reference.
C7_UnboundHasNoRef ==
    \A t \in 1..Len(terms) :
        terms[t].type = "var" /\ ~terms[t].bound => terms[t].ref = 0

\* --------------------------------------------------------------------- C8
\* C8: as long as no variable was unified with a compound containing it, no
\* variable's reference chain leads back to itself (Deref terminates).
C8_Acyclic ==
    ~occursViolated => \A t \in 1..Len(terms) : ~DerefLoops(terms, t)

\* --------------------------------------------------------------------- C9
\* C9: with a continuation K that does not invoke the retry it is handed, a
\* call Unify(t0, t1, K, R) has invoked exactly one of K and R, exactly once,
\* when it returns, and never more than one of them before.
C9_ExactlyOne ==
    (UnifyCalled /\ mode = "stop") =>
        /\ kCalls + rCalls <= 1
        /\ (pc.op = "done" => kCalls + rCalls = 1)

C9_Witness ==
    /\ UnifyCalled
    /\ mode = "stop"
    /\ pc.op = "done"
    /\ lastUnwind.popped >= 1
    /\ rCalls = 1
    /\ kCalls = 0

\* -------------------------------------------------------------------- C10
\* C10: a member query over a finite list of atoms, with Item unbound or an
\* atom, whose driver invokes the retry after every solution, terminates: the
\* outer retry R is invoked and the outermost call returns.
C10_Terminates == (mode = "retry") ~> (pc.op = "done" /\ rCalls = 1)

C10_Witness ==
    /\ scen = "member"
    /\ mode = "retry"
    /\ terms0[qa].type = "atom"
    /\ Len(ListElems(terms0, qb)) >= 3
    /\ Len(sols) >= 2
    /\ pc.op = "done"
    /\ rCalls = 1

\* -------------------------------------------------------------------- C11
\* C11: Bind on a variable that is already bound fails at once with a
\* rebinding error and leaves the variable's reference and the trail as they
\* were.
C11_RebindRejected ==
    (scen = "bind" /\ calls >= 1 /\ terms0[qa].bound) =>
        /\ pc.op = "error"
        /\ terms[qa].ref = terms0[qa].ref
        /\ trail = trail0

\* -------------------------------------------------------------------- C12
\* A member query on the empty list nests 6 invocations, and every further
\* element adds 28: Member1, Unify on the list, UnifyTerms and its K and r
\* closures, Member0, Unify on the head, each called from inside the other.
\* C12: Member0 and Member1 return their next step to a trampoline, so the
\* invocations that have not returned stay within one constant whatever the
\* length of the list: the nesting a one-element list needs is enough for
\* every list.
C12_BoundedNesting ==
    LET OneElement == 6 + 28
    IN  scen = "member" => depth <= OneElement

\* -------------------------------------------------------------------- C13
\* Unify is about to run and one of its dereferenced operands is an unbound
\* variable.
UnifyOnVar ==
    /\ pc.op = "Unify"
    /\ ~DerefLoops(terms, pc.t0)
    /\ ~DerefLoops(terms, pc.t1)
    /\ \/ terms[Deref(terms, pc.t0)].type = "var"
       \/ terms[Deref(terms, pc.t1)].type = "var"

\* C13: when at least one operand dereferences to an unbound variable and the
\* two do not dereference to the same variable, Unify appends exactly that
\* variable to the trail, binds it to the dereferenced other operand, builds
\* no retry, does not invoke R and invokes K with the R it was given (the run
\* is cut only where the variable occurs in the term it is bound to).
C13_BindsAndContinues ==
    [][ (UnifyOnVar /\ Deref(terms, pc.t0) # Deref(terms, pc.t1)) =>
          LET t0dr == Deref(terms, pc.t0)
              t1dr == Deref(terms, pc.t1)
              v == IF terms[t0dr].type = "var" THEN t0dr ELSE t1dr
              w == IF terms[t0dr].type = "var" THEN t1dr ELSE t0dr
          IN  /\ trail' = Append(trail, v)
              /\ terms' = [terms EXCEPT ![v].ref = w, ![v].bound = TRUE]
              /\ clos' = clos
              /\ rCalls' = rCalls
              /\ lastUnwind' = lastUnwind
              /\ \/ pc' = CallK(pc.K, pc.R)
                 \/ terms[w].type = "atom" /\ Contains(terms, w, v)
      ]_vars

\* Unify(atom, Y) has bound Y to the atom and is about to invoke K with R.
C13_Witness ==
    /\ UnifyCalled
    /\ terms0[qa].type = "atom"
    /\ terms0[qb].type = "var"
    /\ ~terms0[qb].bound
    /\ pc = CallK(1, 2)
    /\ trail = Append(trail0, qb)
    /\ terms[qb].bound
    /\ terms[qb].ref = qa

\* -------------------------------------------------------------------- C14
\* The driver has called Unify on two compounds with the same functor and an
\* arity of at least one.
CompoundCall ==
    /\ UnifyCalled
    /\ ~DerefLoops(terms0, qa)
    /\ ~DerefLoops(terms0, qb)
    /\ LET d0 == Deref(terms0, qa)
           d1 == Deref(terms0, qb)
       IN  /\ terms0[d0].type = "atom"
           /\ terms0[d1].type = "atom"
           /\ SameFunctor(terms0, d0, d1)
           /\ terms0[d0].arity >= 1

\* C14: when Unify of two compounds with equal functor and arity n >= 1 fails
\* at some argument pair, then at the moment the caller's R is invoked the
\* trail is the trail of the call, every variable bound during the attempt is
\* unbound again, K has not been invoked, and R is invoked exactly once.
C14_FailureUndoesAll ==
    (CompoundCall /\ kCalls = 0) =>
        /\ rCalls <= 1
        /\ (pc.op = "CallR" /\ clos[pc.R].kind = "R0") =>
               /\ trail = trail0
               /\ rCalls = 0
               /\ \A t \in 1..Len(terms) : terms[t].bound = terms0[t].bound
        /\ pc.op = "done" =>
               /\ rCalls = 1
               /\ trail = trail0
               /\ \A t \in 1..Len(terms) : terms[t].bound = terms0[t].bound

\* f(X, Y) against f(a, b) with Y bound before: the first pair bound X, the
\* second pair failed, and R is about to run with X unbound again.
C14_Witness ==
    /\ CompoundCall
    /\ terms0[Deref(terms0, qa)].arity = 2
    /\ Len(trail0) >= 1
    /\ kCalls = 0
    /\ pc.op = "CallR"
    /\ clos[pc.R].kind = "R0"
    /\ lastUnwind.popped >= 1
    /\ trail = trail0

\* -------------------------------------------------------------------- C15
\* C15: Member1 is entered only by the retry that Member0 built for its head
\* unification (run when that unification fails or when the retry handed to
\* the solution is invoked), with the Item, List, K and R of that Member0
\* call, and the trail at that moment is the trail Member0 was called with.
C15_ClauseOrder ==
    [][ pc'.op = "Member1" =>
          /\ pc.op = "CallR"
          /\ clos[pc.R].kind = "M0r"
          /\ pc' = CallMember1(clos[pc.R].x, clos[pc.R].y,
                               clos[pc.R].K, clos[pc.R].R)
          /\ trail' = closTrail[pc.R]
      ]_vars

\* Clause 2 of a recursive member call is entered after a solution was
\* retried: the binding of Item is gone, those of the outer clause remain.
C15_Witness ==
    /\ scen \in {"member", "nested"}
    /\ pc.op = "Member1"
    /\ Len(sols) >= 1
    /\ Len(trail) >= 2
    /\ ~terms[qa].bound
    /\ \E m \in 1..Len(clos) :
          /\ clos[m].kind = "M0r"
          /\ pc = CallMember1(clos[m].x, clos[m].y, clos[m].K, clos[m].R)
          /\ trail = closTrail[m]

\* -------------------------------------------------------------------- C16
\* The retries Member0 built for the call that the closure c belongs to.
CallsOf(c) ==
    {m \in 1..Len(clos) : /\ clos[m].kind = "M0r"
                          /\ clos[m].x = c.x /\ clos[m].y = c.y
                          /\ clos[m].K = c.K /\ clos[m].R = c.R}

\* C16: the R passed to a Member0 call is invoked by the retry of its last
\* clause; at that moment the trail is the trail of that Member0 call and no
\* variable outside it is bound.  For the top-level query the trail is then
\* empty and Item is unbound.
C16_ExhaustedRestores ==
    [][ (pc.op = "CallR" /\ clos[pc.R].kind = "M1r") =>
          LET c == clos[pc.R]
          IN  /\ pc' = CallR(c.R)
              /\ CallsOf(c) # {}
              /\ \A m \in CallsOf(c) :
                    /\ trail' = closTrail[m]
                    /\ \A t \in 1..Len(terms') :
                          terms'[t].bound =>
                              \E j \in 1..Len(closTrail[m]) : closTrail[m][j] = t
              /\ clos[c.R].kind = "R0" =>
                    /\ trail' = <<>>
                    /\ ~terms'[qa].bound
      ]_vars

\* An inner member call of the conjunction is exhausted after it delivered a
\* solution: its R is about to run, Item is still bound by the outer call.
C16_Witness ==
    /\ scen = "nested"
    /\ pc.op = "CallR"
    /\ Len(sols) >= 1
    /\ Len(trail) >= 1
    /\ terms[qa].bound
    /\ \E m \in 1..Len(clos) :
          /\ clos[m].kind = "M1r"
          /\ clos[m].R = pc.R
          /\ clos[m].y = qc
          /\ trail = closTrail[m]

\* -------------------------------------------------------------------- C17
\* C17: whenever both operands of Unify dereference to two distinct unbound
\* variables, the variable of the first operand is bound to the variable of
\* the second and recorded on the trail; the second stays unbound.
C17_FirstToSecond ==
    [][ ( /\ UnifyOnVar
          /\ terms[Deref(terms, pc.t0)].type = "var"
          /\ terms[Deref(terms, pc.t1)].type = "var"
          /\ Deref(terms, pc.t0) # Deref(terms, pc.t1) ) =>
          LET t0dr == Deref(terms, pc.t0)
              t1dr == Deref(terms, pc.t1)
          IN  /\ trail' = Append(trail, t0dr)
              /\ terms'[t0dr].bound
              /\ terms'[t0dr].ref = t1dr
              /\ terms'[t1dr] = terms[t1dr]
              /\ ~terms'[t1dr].bound
      ]_vars

\* Unify(X, Y) and Unify(Y, X) on unbound X, Y: the first operand was bound.
C17_Witness ==
    /\ UnifyCalled
    /\ terms0[qa].type = "var" /\ ~terms0[qa].bound
    /\ terms0[qb].type = "var" /\ ~terms0[qb].bound
    /\ qa # qb
    /\ pc.op = "CallK"
    /\ trail = Append(trail0, qa)
    /\ terms[qa].bound
    /\ terms[qa].ref = qb
    /\ ~terms[qb].bound

\* -------------------------------------------------------------------- C18
\* C18: every Bind that Unify runs, in any run of Unify, Member0, Member1 and
\* their retries, is given a term that is a variable and is unbound at that
\* moment: no variable is bound while it is bound.
C18_BindsUnbound ==
    [][ (pc.op = "Unify" /\ trail' # trail) =>
          /\ Len(trail') = Len(trail) + 1
          /\ LET v == trail'[Len(trail')]
             IN  /\ terms[v].type = "var"
                 /\ ~terms[v].bound
                 /\ \A j \in 1..Len(trail) : trail[j] # v
      ]_vars

\* Item was bound to the first element, unbound by the retry, and has just
\* been bound again to a later element.
C18_Witness ==
    /\ scen = "member"
    /\ terms0[qa].type = "var"
    /\ Len(sols) >= 1
    /\ pc.op = "CallK"
    /\ Len(trail) >= 3
    /\ trail[Len(trail)] = qa
    /\ terms[qa].bound
    /\ terms[qa].ref # sols[1]

\* -------------------------------------------------------------------- C19
\* C19: in every reachable state a variable is bound exactly when it occurs
\* in the trail, and no variable occurs in the trail twice, so the length of
\* the trail is the number of bound variables.
C19_TrailMatchesBound ==
    /\ \A t \in 1..Len(terms) :
          terms[t].bound <=> \E j \in 1..Len(trail) : trail[j] = t
    /\ \A j \in 1..Len(trail) : terms[trail[j]].type = "var"
    /\ Distinct(trail)
    /\ Len(trail) = Cardinality({t \in 1..Len(terms) : terms[t].bound})

\* Two variables are bound and on the trail while a third, bound earlier and
\* unwound since, is off it.
C19_Witness ==
    /\ Len(trail) >= 2
    /\ lastUnwind.popped >= 1
    /\ \E t \in 1..Len(terms) :
          /\ terms[t].type = "var"
          /\ ~terms[t].bound
          /\ terms[t].ref # 0
          /\ \A j \in 1..Len(trail) : trail[j] # t

\* -------------------------------------------------------------------- C20
\* C20: every UnWind(index) a retry runs during a query whose driver invokes
\* each retry it is handed at most once has index no greater than the length
\* of the trail, so it never pops an empty trail, and it leaves the trail
\* with exactly index entries.
C20_UnwindInRange ==
    [][ RetryStep =>
          /\ clos[pc.R].index >= 0
          /\ clos[pc.R].index <= Len(trail)
          /\ Len(trail') = clos[pc.R].index
          /\ pc'.op # "ub"
          /\ lastUnwind'.popped = Len(trail) - clos[pc.R].index
      ]_vars

\* A retry has popped its entries and the retry it delegates to is about to
\* pop more, down to an index that is not zero.
C20_Witness ==
    /\ RetryStep
    /\ lastUnwind.popped >= 1
    /\ Len(trail) = lastUnwind.index
    /\ clos[pc.R].index >= 1
    /\ clos[pc.R].index < Len(trail)

====
